---- MODULE Spec2Model ----
(***************************************************************************)
(* Model of the generic heat pump topology generator                       *)
(* (src/models/heatpump.py, class Heatpump).                               *)
(*                                                                         *)
(* The state is the Heatpump object: its constructor arguments, the        *)
(* component store, the connection store and the connections registered    *)
(* with the tespy Network.  The constructor is followed call by call: one  *)
(* step for generate_components, one step per set_conn call made by        *)
(* generate_topology.  After construction the two public mutators          *)
(* (delete_component, set_conn) may be called.                             *)
(***************************************************************************)
EXTENDS Integers, Sequences, FiniteSets, TLC

VARIABLES
    cfg,          \* the constructor arguments: nr_cycles, int_heatex, intercooler
    components,   \* self.components: key -> component object
    connections,  \* self.connections: label -> Connection
    nw,           \* connections registered with self.nw, by label
    pc,           \* position of the constructor: "init", "wiring", "built", "aborted"
    todo,         \* set_conn calls generate_topology still has to make
    out,          \* what the last call reported (printed message or exception)
    ops,          \* number of public method calls made after construction
    earlier       \* the object an earlier Heatpump(...) call with the same
                  \* arguments ended with, if there was one

vars == <<cfg, components, connections, nw, pc, todo, out, ops, earlier>>

(***************************************************************************)
(* Bounds of the model.                                                    *)
(***************************************************************************)
MaxCycles == 3        \* nr_cycles ranges over 1..MaxCycles (and TwoDigitCycles)
MaxAmount == 2        \* largest intercooler amount
MaxRefs == 2          \* largest number of cold-cycle references in int_heatex
MaxOps == 2           \* public method calls after construction
MaxOpsCycles == 2     \* largest plant on which public methods are called
TwoDigitCycles == 10  \* a plant whose cycle indices need two decimal digits

(***************************************************************************)
(* Small helpers on sequences and functions.                               *)
(***************************************************************************)
Range(s) == {s[i] : i \in DOMAIN s}

RECURSIVE Flatten(_)
Flatten(ss) == IF ss = <<>> THEN <<>> ELSE Head(ss) \o Flatten(Tail(ss))

\* dict assignment d[k] = v: the new value replaces an existing one
Put(d, k, v) == (k :> v) @@ d

\* dict without key k
Drop(d, k) == [x \in (DOMAIN d) \ {k} |-> d[x]]

(***************************************************************************)
(* Python string formatting of an integer, as a sequence of code points,   *)
(* and the string operations the generator applies to component names.     *)
(***************************************************************************)
RECURSIVE NatChars(_)
NatChars(n) == IF n < 10 THEN <<48 + n>> ELSE NatChars(n \div 10) \o <<48 + (n % 10)>>

\* str(n)
IntChars(n) == IF n < 0 THEN <<45>> \o NatChars(0 - n) ELSE NatChars(n)

\* the text after 'Internal Heat Exchanger ' in the name of exchanger (h, t)
IdxChars(h, t) == IntChars(h) \o <<95>> \o IntChars(t)

IsPrefix(p, s) == Len(p) <= Len(s) /\ SubSeq(s, 1, Len(p)) = p

\* s < t in Python's string order (code point by code point, shorter first)
RECURSIVE StrLess(_, _)
StrLess(s, t) ==
    IF t = <<>> THEN FALSE
    ELSE IF s = <<>> THEN TRUE
    ELSE IF Head(s) # Head(t) THEN Head(s) < Head(t)
    ELSE StrLess(Tail(s), Tail(t))

(***************************************************************************)
(* Component names (keys of self.components) and labels.                   *)
(***************************************************************************)
CycleCloserName(c) == "Cycle Closer " \o ToString(c)
ValveName(c) == "Valve " \o ToString(c)
HeatExchangerName(a, b) == "Heat Exchanger " \o ToString(a) \o "_" \o ToString(b)
CondenserName(c) == "Condenser " \o ToString(c)
IntercoolerName(c, i) == "Intercooler " \o ToString(c) \o "-" \o ToString(i)
CompressorName(c) == "Compressor " \o ToString(c)
\* key under which a stage compressor is stored
CompressorKey(c, i) == "Compressor " \o ToString(c) \o "-" \o ToString(i)
\* label handed to the Compressor object of a stage compressor
CompressorLabel(c, i) == "Compressor " \o ToString(c) \o "_" \o ToString(i)
\* 'h_t', the result of name.split(' ')[-1] for an internal heat exchanger
IntHeatexIdx(h, t) == ToString(h) \o "_" \o ToString(t)
IntHeatexName(h, t) == "Internal Heat Exchanger " \o IntHeatexIdx(h, t)

\* a tespy component object: its label and its class
Component(label, kind) == [label |-> label, kind |-> kind]

\* a tespy Connection object
Connection(source, outlet, target, inlet, label) ==
    [source |-> source, outlet |-> outlet,
     target |-> target, inlet |-> inlet, label |-> label]

\* the arguments of one set_conn call
Call(label, comp_out, outlet, comp_in, inlet) ==
    [label |-> label, comp_out |-> comp_out, outlet |-> outlet,
     comp_in |-> comp_in, inlet |-> inlet]

(***************************************************************************)
(* generate_components                                                     *)
(***************************************************************************)
\* the dict after the assignments d[k] = v for each <<k, v>> of es, in order
RECURSIVE PutAll(_, _)
PutAll(d, es) ==
    IF es = <<>> THEN d ELSE PutAll(Put(d, Head(es)[1], Head(es)[2]), Tail(es))

\* the seven units created once, independent of nr_cycles
FixedEntries ==
    << <<"Heat Source Feed Flow", Component("Heat Source Feed Flow", "Source")>>,
       <<"Heat Source Back Flow", Component("Heat Source Back Flow", "Sink")>>,
       <<"Heat Source Recirculation Pump",
         Component("Heat Source Recirculation Pump", "Pump")>>,
       <<"Evaporator 1", Component("Evaporator 1", "HeatExchanger")>>,
       <<"Consumer Cycle Closer", Component("Consumer Cycle Closer", "CycleCloser")>>,
       <<"Consumer Recirculation Pump",
         Component("Consumer Recirculation Pump", "Pump")>>,
       <<"Consumer", Component("Consumer", "HeatExchangerSimple")>> >>

\* the intercooler created for stage i, if the type is one of the two known
IntercoolerEntries(c, i, ic_type) ==
    IF ic_type = "HeatExchanger"
    THEN << <<IntercoolerName(c, i), Component(IntercoolerName(c, i), "HeatExchanger")>> >>
    ELSE IF ic_type = "HeatExchangerSimple"
    THEN << <<IntercoolerName(c, i),
              Component(IntercoolerName(c, i), "HeatExchangerSimple")>> >>
    ELSE <<>>

\* the pass with the intercooler test one stage too wide
StageEntriesOneTooMany(c, i, nr_intercooler, ic_type) ==
    (IF i < nr_intercooler + 2 THEN IntercoolerEntries(c, i, ic_type) ELSE <<>>)
    \o << <<CompressorKey(c, i), Component(CompressorLabel(c, i), "Compressor")>> >>

\* one pass of "for i in range(1, nr_intercooler+2)"
StageEntries(c, i, nr_intercooler, ic_type) ==
    (IF i < nr_intercooler + 1 THEN IntercoolerEntries(c, i, ic_type) ELSE <<>>)
    \o << <<CompressorKey(c, i), Component(CompressorLabel(c, i), "Compressor")>> >>

\* the compressors (and intercoolers) of one cycle
CompressionEntries(c, intercooler) ==
    IF c \in DOMAIN intercooler
    THEN LET nr_intercooler == intercooler[c].amount
             ic_type == intercooler[c].type
         IN  Flatten([i \in 1..(nr_intercooler + 1) |->
                        StageEntries(c, i, nr_intercooler, ic_type)])
    ELSE << <<CompressorName(c), Component(CompressorName(c), "Compressor")>> >>

\* the internal heat exchangers whose hot side lies in cycle c
IntHeatexEntries(c, int_heatex) ==
    IF c \in DOMAIN int_heatex
    THEN [k \in 1..Len(int_heatex[c].cold) |->
            <<IntHeatexName(c, int_heatex[c].cold[k]),
              Component(IntHeatexName(c, int_heatex[c].cold[k]), "HeatExchanger")>>]
    ELSE <<>>

\* the pass with a condenser created in every cycle
CycleEntriesCondenserEverywhere(c, conf) ==
    << <<CycleCloserName(c), Component(CycleCloserName(c), "CycleCloser")>>,
       <<ValveName(c), Component(ValveName(c), "Valve")>> >>
    \o (IF c # 1
        THEN << <<HeatExchangerName(c - 1, c),
                  Component(HeatExchangerName(c - 1, c), "HeatExchanger")>> >>
        ELSE <<>>)
    \o << <<CondenserName(c), Component(CondenserName(c), "Condenser")>> >>
    \o CompressionEntries(c, conf.intercooler)
    \o IntHeatexEntries(c, conf.int_heatex)

\* one pass of "for cycle in range(1, self.nr_cycles+1)"
CycleEntries(c, conf) ==
    << <<CycleCloserName(c), Component(CycleCloserName(c), "CycleCloser")>>,
       <<ValveName(c), Component(ValveName(c), "Valve")>> >>
    \o (IF c # 1
        THEN << <<HeatExchangerName(c - 1, c),
                  Component(HeatExchangerName(c - 1, c), "HeatExchanger")>> >>
        ELSE <<>>)
    \o (IF c = conf.nr_cycles
        THEN << <<CondenserName(c), Component(CondenserName(c), "Condenser")>> >>
        ELSE <<>>)
    \o CompressionEntries(c, conf.intercooler)
    \o IntHeatexEntries(c, conf.int_heatex)

\* self.components after generate_components
GeneratedComponents(conf) ==
    PutAll(<<>>, FixedEntries
                 \o Flatten([c \in 1..conf.nr_cycles |-> CycleEntries(c, conf)]))

(***************************************************************************)
(* generate_topology: the set_conn calls it makes, in order.               *)
(***************************************************************************)
\* the fixed calls with the consumer loop led through the condenser of cycle 1
FixedCallsFirstCondenser(conf) ==
    << Call("valve1_to_evaporator1", "Valve 1", "out1", "Evaporator 1", "in2"),
       Call("heatsource_ff_to_heatsource_pump",
            "Heat Source Feed Flow", "out1", "Heat Source Recirculation Pump", "in1"),
       Call("heatsource_pump_to_evaporator1",
            "Heat Source Recirculation Pump", "out1", "Evaporator 1", "in1"),
       Call("evaporator1_to_heatsource_bf",
            "Evaporator 1", "out1", "Heat Source Back Flow", "in1"),
       Call("heatsink_cc_to_heatsink_pump",
            "Consumer Cycle Closer", "out1", "Consumer Recirculation Pump", "in1"),
       Call("heatsink_pump_to_cond1",
            "Consumer Recirculation Pump", "out1", CondenserName(1), "in2"),
       Call("cond1_to_consumer", CondenserName(1), "out2", "Consumer", "in1"),
       Call("consumer_to_heatsink_cc", "Consumer", "out1", "Consumer Cycle Closer", "in1") >>

\* the eight calls made before the loop over the cycles
FixedCalls(conf) ==
    << Call("valve1_to_evaporator1", "Valve 1", "out1", "Evaporator 1", "in2"),
       Call("heatsource_ff_to_heatsource_pump",
            "Heat Source Feed Flow", "out1", "Heat Source Recirculation Pump", "in1"),
       Call("heatsource_pump_to_evaporator1",
            "Heat Source Recirculation Pump", "out1", "Evaporator 1", "in1"),
       Call("evaporator1_to_heatsource_bf",
            "Evaporator 1", "out1", "Heat Source Back Flow", "in1"),
       Call("heatsink_cc_to_heatsink_pump",
            "Consumer Cycle Closer", "out1", "Consumer Recirculation Pump", "in1"),
       Call("heatsink_pump_to_cond" \o ToString(conf.nr_cycles),
            "Consumer Recirculation Pump", "out1", CondenserName(conf.nr_cycles), "in2"),
       Call("cond" \o ToString(conf.nr_cycles) \o "_to_consumer",
            CondenserName(conf.nr_cycles), "out2", "Consumer", "in1"),
       Call("consumer_to_heatsink_cc", "Consumer", "out1", "Consumer Cycle Closer", "in1") >>

\* the valve feeding the hot inlet of the inter-cycle exchanger
ValveCallsHotInlet(c) ==
    << Call("cc" \o ToString(c) \o "_to_valve" \o ToString(c),
            CycleCloserName(c), "out1", ValveName(c), "in1") >>
    \o (IF c # 1
        THEN << Call("valve" \o ToString(c) \o "_to_heat_ex" \o IntHeatexIdx(c - 1, c),
                     ValveName(c), "out1", HeatExchangerName(c - 1, c), "in1") >>
        ELSE <<>>)

\* cc -> valve, and valve -> inter-cycle exchanger for every cycle but the first
ValveCalls(c) ==
    << Call("cc" \o ToString(c) \o "_to_valve" \o ToString(c),
            CycleCloserName(c), "out1", ValveName(c), "in1") >>
    \o (IF c # 1
        THEN << Call("valve" \o ToString(c) \o "_to_heat_ex" \o IntHeatexIdx(c - 1, c),
                     ValveName(c), "out1", HeatExchangerName(c - 1, c), "in2") >>
        ELSE <<>>)

\* the test with the branch for a list left out
RefersToIntOnly(int_heatex, i, c) ==
    i \in DOMAIN int_heatex /\
        IF int_heatex[i].isList THEN FALSE
        ELSE int_heatex[i].cold[1] = c

\* does the entry of hot cycle i name cold cycle c (a single int or a list)
RefersTo(int_heatex, i, c) ==
    i \in DOMAIN int_heatex /\
        IF int_heatex[i].isList THEN c \in Range(int_heatex[i].cold)
        ELSE int_heatex[i].cold[1] = c

\* the scan of the hot cycles run from the last cycle down to the first
CycleIntHeatexDescending(c, conf) ==
    SelectSeq([i \in 1..conf.nr_cycles |-> conf.nr_cycles + 1 - i],
              LAMBDA i : RefersTo(conf.int_heatex, i, c))

\* cycle_int_heatex: the hot cycles of the exchangers whose cold side is cycle c
CycleIntHeatex(c, conf) ==
    SelectSeq([i \in 1..conf.nr_cycles |-> i],
              LAMBDA i : RefersTo(conf.int_heatex, i, c))

\* the calls of the loop "for c_int_heatex in cycle_int_heatex"
ColdChainCalls(c, chain) ==
    [k \in 1..Len(chain) |->
        IF k = 1
        THEN IF c = 1
             THEN Call("evaporator" \o ToString(c) \o "_to_int_heatex"
                          \o IntHeatexIdx(chain[k], c),
                       "Evaporator 1", "out2", IntHeatexName(chain[k], c), "in2")
             ELSE Call("heatex" \o IntHeatexIdx(c - 1, c) \o "_to_int_heatex"
                          \o IntHeatexIdx(chain[k], c),
                       HeatExchangerName(c - 1, c), "out2",
                       IntHeatexName(chain[k], c), "in2")
        ELSE Call("int_heatex" \o IntHeatexIdx(chain[k - 1], c) \o "_to_int_heatex"
                     \o IntHeatexIdx(chain[k], c),
                  IntHeatexName(chain[k - 1], c), "out2",
                  IntHeatexName(chain[k], c), "in2")]

\* the call that feeds the first compressor `comp` of cycle c; suffix is the
\* text the label carries after 'to_comp{cycle}' in the evaporator case
CompressorFeedCall(c, chain, comp, suffix) ==
    IF chain = <<>>
    THEN IF c = 1
         THEN Call("evaporator1_to_comp" \o ToString(c) \o suffix,
                   "Evaporator 1", "out2", comp, "in1")
         ELSE Call("heatex" \o IntHeatexIdx(c - 1, c) \o "_to_comp" \o ToString(c),
                   HeatExchangerName(c - 1, c), "out2", comp, "in1")
    ELSE Call("int_heatex" \o IntHeatexIdx(chain[Len(chain)], c)
                 \o "_to_comp" \o ToString(c),
              IntHeatexName(chain[Len(chain)], c), "out2", comp, "in1")

\* the stage wired through the second stream of the intercooler
StageCallsSecondStream(c, i) ==
    << Call("comp" \o ToString(c) \o "-" \o ToString(i) \o "_to_intercooler"
               \o ToString(c) \o "-" \o ToString(i),
            CompressorKey(c, i), "out1", IntercoolerName(c, i), "in2"),
       Call("intercooler" \o ToString(c) \o "-" \o ToString(i) \o "_to_comp"
               \o ToString(c) \o "-" \o ToString(i + 1),
            IntercoolerName(c, i), "out2", CompressorKey(c, i + 1), "in1") >>

\* the two calls of one pass of "for i in range(1, amount+1)"
StageCalls(c, i) ==
    << Call("comp" \o ToString(c) \o "-" \o ToString(i) \o "_to_intercooler"
               \o ToString(c) \o "-" \o ToString(i),
            CompressorKey(c, i), "out1", IntercoolerName(c, i), "in1"),
       Call("intercooler" \o ToString(c) \o "-" \o ToString(i) \o "_to_comp"
               \o ToString(c) \o "-" \o ToString(i + 1),
            IntercoolerName(c, i), "out1", CompressorKey(c, i + 1), "in1") >>

\* the branch "if cycle in self.intercooler"
IntercooledCalls(c, conf, chain) ==
    LET amount == conf.intercooler[c].amount
        lastStage == "comp" \o ToString(c) \o "-" \o ToString(amount + 1)
    IN  << CompressorFeedCall(c, chain, CompressorKey(c, 1), "-1") >>
        \o Flatten([i \in 1..amount |-> StageCalls(c, i)])
        \o << IF c = conf.nr_cycles
              THEN Call(lastStage \o "_to_cond" \o ToString(c),
                        CompressorKey(c, amount + 1), "out1", CondenserName(c), "in1")
              ELSE Call(lastStage \o "_to_heatex" \o IntHeatexIdx(c, c + 1),
                        CompressorKey(c, amount + 1), "out1",
                        HeatExchangerName(c, c + 1), "in1") >>

\* the branch of a cycle without intercooler
SingleCompressorCalls(c, conf, chain) ==
    << CompressorFeedCall(c, chain, CompressorName(c), ""),
       IF c = conf.nr_cycles
       THEN Call("comp" \o ToString(c) \o "_to_cond" \o ToString(c),
                 CompressorName(c), "out1", CondenserName(c), "in1")
       ELSE Call("comp" \o ToString(c) \o "_to_heatex" \o IntHeatexIdx(c, c + 1),
                 CompressorName(c), "out1", HeatExchangerName(c, c + 1), "in1") >>

CompressionCalls(c, conf, chain) ==
    IF c \in DOMAIN conf.intercooler
    THEN IntercooledCalls(c, conf, chain)
    ELSE SingleCompressorCalls(c, conf, chain)

\* every integer that can occur as a cycle index in a component name
Indices(conf) ==
    (1..conf.nr_cycles) \cup DOMAIN conf.int_heatex
    \cup UNION {Range(conf.int_heatex[h].cold) : h \in DOMAIN conf.int_heatex}

\* f'Internal Heat Exchanger {cycle}' in comp, for comp the name of exchanger
\* (h, t): both start with the same words, so the test is whether str(cycle)
\* is a prefix of 'h_t'
NameMatchesCycle(c, h, t) == IsPrefix(IntChars(c), IdxChars(h, t))

\* the keys of comps selected by the list comprehension of the hot side,
\* each as its pair of indices (no other key contains 'Internal Heat Exchanger')
HotSideMatches(c, comps, conf) ==
    {p \in Indices(conf) \X Indices(conf) :
        /\ IntHeatexName(p[1], p[2]) \in DOMAIN comps
        /\ NameMatchesCycle(c, p[1], p[2])}

\* is name p placed before name q by int_heatexs.sort(reverse=True)
SortsBefore(p, q) == StrLess(IdxChars(q[1], q[2]), IdxChars(p[1], p[2]))

\* list.sort(reverse=True) on the names of a set of exchangers
RECURSIVE SortReverse(_)
SortReverse(ps) ==
    IF ps = {} THEN <<>>
    ELSE LET first == CHOOSE p \in ps : \A q \in ps \ {p} : SortsBefore(p, q)
         IN  <<first>> \o SortReverse(ps \ {first})

\* int_heatexs after the sort
IntHeatexs(c, comps, conf) == SortReverse(HotSideMatches(c, comps, conf))

\* the calls of the loop "for int_heatex in int_heatexs"
HotChainCalls(c, conf, hot) ==
    [k \in 1..Len(hot) |->
        IF k = 1
        THEN IF c = conf.nr_cycles
             THEN Call("cond" \o ToString(c) \o "_to_int_heatex"
                          \o IntHeatexIdx(hot[k][1], hot[k][2]),
                       CondenserName(c), "out1",
                       IntHeatexName(hot[k][1], hot[k][2]), "in1")
             ELSE Call("heatex" \o IntHeatexIdx(c, c + 1) \o "_to_int_heatex"
                          \o IntHeatexIdx(hot[k][1], hot[k][2]),
                       HeatExchangerName(c, c + 1), "out1",
                       IntHeatexName(hot[k][1], hot[k][2]), "in1")
        ELSE Call("int_heatex" \o IntHeatexIdx(hot[k - 1][1], hot[k - 1][2])
                     \o "_to_int_heatex" \o IntHeatexIdx(hot[k][1], hot[k][2]),
                  IntHeatexName(hot[k - 1][1], hot[k - 1][2]), "out1",
                  IntHeatexName(hot[k][1], hot[k][2]), "in1")]

\* the call that closes the loop of cycle c
CloseCall(c, conf, hot) ==
    IF hot = <<>>
    THEN IF c = conf.nr_cycles
         THEN Call("cond" \o ToString(c) \o "_to_cc" \o ToString(c),
                   CondenserName(c), "out1", CycleCloserName(c), "in1")
         ELSE Call("heatex" \o IntHeatexIdx(c, c + 1) \o "_to_cc" \o ToString(c),
                   HeatExchangerName(c, c + 1), "out1", CycleCloserName(c), "in1")
    ELSE Call("int_heatex" \o IntHeatexIdx(hot[Len(hot)][1], hot[Len(hot)][2])
                 \o "_to_cc" \o ToString(c),
              IntHeatexName(hot[Len(hot)][1], hot[Len(hot)][2]), "out1",
              CycleCloserName(c), "in1")

\* one pass of "for cycle in range(1, self.nr_cycles+1)"
CycleCalls(c, comps, conf) ==
    LET chain == CycleIntHeatex(c, conf)
        hot == IntHeatexs(c, comps, conf)
    IN  ValveCalls(c)
        \o ColdChainCalls(c, chain)
        \o CompressionCalls(c, conf, chain)
        \o HotChainCalls(c, conf, hot)
        \o << CloseCall(c, conf, hot) >>

\* all set_conn calls of generate_topology, in the order they are made
TopologyCalls(comps, conf) ==
    FixedCalls(conf)
    \o Flatten([c \in 1..conf.nr_cycles |-> CycleCalls(c, comps, conf)])

(***************************************************************************)
(* set_conn and delete_component as functions of the object's fields.      *)
(***************************************************************************)
\* self.nw.add_conns(conn): tespy refuses a label it already holds
AddConns(net, conn) ==
    IF conn.label \in DOMAIN net
    THEN [raised |-> "ValueError", nw |-> net]
    ELSE [raised |-> "", nw |-> Put(net, conn.label, conn)]

\* a network that keeps a connection it is asked to drop
DelConnsKeeping(net, conn) == net

\* self.nw.del_conns(conn): tespy drops the row indexed by the label
DelConns(net, conn) == Drop(net, conn.label)

\* set_conn looking the components up with dict.get: an unknown name gives
\* None and the connection is stored and registered all the same
SetConnWithGet(comps, conns, net, call) ==
    LET source == IF call.comp_out \in DOMAIN comps THEN comps[call.comp_out]
                  ELSE Component("", "")
        target == IF call.comp_in \in DOMAIN comps THEN comps[call.comp_in]
                  ELSE Component("", "")
        conn == Connection(source, call.outlet, target, call.inlet, call.label)
        stored == Put(conns, call.label, conn)
        added == AddConns(net, stored[call.label])
    IN  [raised |-> added.raised, connections |-> stored, nw |-> added.nw]

\* set_conn: the fields after the call and the exception it raised, if any
SetConn(comps, conns, net, call) ==
    IF call.comp_out \notin DOMAIN comps \/ call.comp_in \notin DOMAIN comps
    THEN [raised |-> "KeyError", connections |-> conns, nw |-> net]
    ELSE LET conn == Connection(comps[call.comp_out], call.outlet,
                                comps[call.comp_in], call.inlet, call.label)
             stored == Put(conns, call.label, conn)
             added == AddConns(net, stored[call.label])
         IN  [raised |-> added.raised, connections |-> stored, nw |-> added.nw]

\* is_source or is_target, for the component name given to delete_component
Touches(component, connection) ==
    component = connection.source.label \/ component = connection.target.label

\* the labels delete_component removes from the connection store
DeletedLabels(component, conns) ==
    {label \in DOMAIN conns : Touches(component, conns[label])}

\* self.nw after the del_conns calls of delete_component
RECURSIVE DelAll(_, _, _)
DelAll(net, conns, labels) ==
    IF labels = {} THEN net
    ELSE LET label == CHOOSE l \in labels : TRUE
         IN  DelAll(DelConns(net, conns[label]), conns, labels \ {label})

\* delete_component that also takes out of the store the components the
\* deleted one fed, together with the connections of the deleted one
DeleteWithNeighbours(comps, conns, net, component) ==
    IF component \notin DOMAIN comps
    THEN [components |-> comps, connections |-> conns, nw |-> net,
          result |-> "not found", obj |-> Component("", "")]
    ELSE LET labels == DeletedLabels(component, conns)
             fed == {conns[l].target.label :
                        l \in {k \in labels : conns[k].source.label = component}}
         IN  [components |-> [k \in (DOMAIN comps) \ ({component} \cup fed) |-> comps[k]],
              connections |-> [l \in (DOMAIN conns) \ labels |-> conns[l]],
              nw |-> DelAll(net, conns, labels),
              result |-> "deleted", obj |-> comps[component]]

\* delete_component without the early return for an unknown name: the store
\* is popped if the key exists and the connections are scanned in any case
DeleteWithoutEarlyReturn(comps, conns, net, component) ==
    LET labels == DeletedLabels(component, conns)
    IN  [components |-> Drop(comps, component),
         connections |-> [l \in (DOMAIN conns) \ labels |-> conns[l]],
         nw |-> DelAll(net, conns, labels),
         result |-> IF component \in DOMAIN comps THEN "deleted" ELSE "not found",
         obj |-> IF component \in DOMAIN comps THEN comps[component]
                 ELSE Component("", "")]

\* delete_component: the fields after the call, the message printed and the
\* component object taken out of the store
Delete(comps, conns, net, component) ==
    IF component \notin DOMAIN comps
    THEN [components |-> comps, connections |-> conns, nw |-> net,
          result |-> "not found", obj |-> Component("", "")]
    ELSE LET labels == DeletedLabels(component, conns)
         IN  [components |-> Drop(comps, component),
              connections |-> [l \in (DOMAIN conns) \ labels |-> conns[l]],
              nw |-> DelAll(net, conns, labels),
              result |-> "deleted", obj |-> comps[component]]

(***************************************************************************)
(* Constructor arguments the model is run on.                              *)
(***************************************************************************)
EmptyDict == [x \in {} |-> x]

MapOf(keys, v) == [k \in keys |-> v]

Config(n, ih, ic) == [nr_cycles |-> n, int_heatex |-> ih, intercooler |-> ic]

\* an int_heatex value: a single cold cycle, or a list of cold cycles
Single(t) == [isList |-> FALSE, cold |-> <<t>>]
List(ts) == [isList |-> TRUE, cold |-> ts]

RECURSIVE SeqsUpTo(_, _)
SeqsUpTo(S, n) ==
    IF n = 0 THEN {<<>>}
    ELSE LET shorter == SeqsUpTo(S, n - 1)
         IN  shorter \cup {Append(s, x) : s \in shorter, x \in S}

IcTypes == {"HeatExchanger", "HeatExchangerSimple"}

\* intercooler specs the docstring allows
ValidIcSpecs == [amount : 1..MaxAmount, type : IcTypes]

\* intercooler specs with an amount below one or a type outside the two kinds
InvalidIcSpecs ==
    {[amount |-> 0, type |-> "HeatExchanger"],
     [amount |-> 0 - 1, type |-> "HeatExchanger"],
     [amount |-> 1, type |-> "Cooler"],
     [amount |-> 0, type |-> "Cooler"]}

\* intercooler dicts: empty, one cycle, or the same spec in every cycle
IcMaps(n, specs) ==
    {EmptyDict}
    \cup {MapOf({c}, s) : c \in 1..n, s \in specs}
    \cup {MapOf(1..n, s) : s \in specs}

\* int_heatex dicts over the indices idx: one key with an int or a list of up
\* to MaxRefs cold cycles, or two keys with one cold cycle each
IhMaps(idx) ==
    {EmptyDict}
    \cup {MapOf({h}, Single(t)) : h \in idx, t \in idx}
    \cup {MapOf({h}, List(ts)) : h \in idx, ts \in SeqsUpTo(idx, MaxRefs)}
    \cup UNION {{(p[1] :> v1) @@ (p[2] :> v2) :
                    v1 \in {Single(t) : t \in idx} \cup {List(<<t>>) : t \in idx},
                    v2 \in {Single(t) : t \in idx} \cup {List(<<t>>) : t \in idx}} :
                p \in {q \in idx \X idx : q[1] < q[2]}}

\* int_heatex dicts with at most one exchanger, its cycles within 1..n
OneIhMaps(n) == {EmptyDict} \cup {MapOf({h}, Single(t)) : h \in 1..n, t \in 1..n}

\* every intercooler spec against at most one exchanger
IcConfigs ==
    UNION {{Config(n, ih, ic) :
              ih \in OneIhMaps(n),
              ic \in IcMaps(n, ValidIcSpecs \cup InvalidIcSpecs)} :
           n \in 1..MaxCycles}

\* every int_heatex dict (indices up to nr_cycles+1) against at most one
\* single intercooler in the first cycle
IhConfigs ==
    UNION {{Config(n, ih, ic) :
              ih \in IhMaps(1..(n + 1)),
              ic \in {EmptyDict,
                      MapOf({1}, [amount |-> 1, type |-> "HeatExchanger"])}} :
           n \in 1..MaxCycles}

\* plants whose last cycle index has two digits
TwoDigitConfigs ==
    LET n == TwoDigitCycles
        idx == {1, n - 1, n}
    IN  {Config(n, ih, ic) :
            ih \in {EmptyDict}
                   \cup {MapOf({h}, Single(t)) : h \in {1, n}, t \in idx}
                   \cup {MapOf({h}, List(<<t1, t2>>)) :
                            h \in {1, n}, t1 \in idx, t2 \in idx},
            ic \in {EmptyDict,
                    MapOf({1}, [amount |-> 1, type |-> "HeatExchanger"])}}

\* the configurations of the construction runs
BuildConfigs == IcConfigs \cup IhConfigs \cup TwoDigitConfigs

\* the plants on which the public methods are called after construction: at
\* most one exchanger, its hot side in the last cycle, and at most one cycle
\* with intercoolers
OpsConfigs ==
    UNION {{Config(n, ih, ic) :
              ih \in {EmptyDict} \cup {MapOf({n}, Single(t)) : t \in 1..n},
              ic \in {EmptyDict}
                     \cup {MapOf({c}, [amount |-> a, type |-> "HeatExchanger"]) :
                              c \in 1..n, a \in 1..MaxAmount}} :
           n \in 1..MaxOpsCycles}

(***************************************************************************)
(* The state machine.                                                      *)
(***************************************************************************)
NoComponent == Component("", "")

\* no Heatpump was constructed before this one
NoObject == [pc |-> "", cfg |-> Config(0, EmptyDict, EmptyDict),
             components |-> EmptyDict, connections |-> EmptyDict, nw |-> EmptyDict]

\* what a call reported: the method, its arguments, the exception raised or
\* the message printed, and the component object it took out of the store
Report(op, args, result, obj) ==
    [op |-> op, args |-> args, result |-> result, obj |-> obj]

CallArgs(call) == <<call.label, call.comp_out, call.outlet, call.comp_in, call.inlet>>

\* __init__ up to the call of generate_components
InitWith(confs) ==
    /\ cfg \in confs
    /\ components = EmptyDict
    /\ connections = EmptyDict
    /\ nw = EmptyDict
    /\ pc = "init"
    /\ todo = <<>>
    /\ out = Report("__init__", <<>>, "", NoComponent)
    /\ ops = 0
    /\ earlier = NoObject

Init == InitWith(OpsConfigs)

InitBuild == InitWith(BuildConfigs)

\* self.generate_components(); self.connections = dict()
GenerateComponents ==
    /\ pc = "init"
    /\ components' = GeneratedComponents(cfg)
    /\ todo' = TopologyCalls(components', cfg)
    /\ pc' = "wiring"
    /\ out' = Report("generate_components", <<>>, "", NoComponent)
    /\ UNCHANGED <<cfg, connections, nw, ops, earlier>>

\* the next set_conn call of generate_topology; an exception ends __init__
GenerateTopologyStep ==
    /\ pc = "wiring"
    /\ todo # <<>>
    /\ LET r == SetConn(components, connections, nw, Head(todo))
       IN  /\ connections' = r.connections
           /\ nw' = r.nw
           /\ out' = Report("set_conn", CallArgs(Head(todo)), r.raised, NoComponent)
           /\ IF r.raised # ""
              THEN pc' = "aborted" /\ todo' = <<>>
              ELSE /\ todo' = Tail(todo)
                   /\ pc' = IF Tail(todo) = <<>> THEN "built" ELSE "wiring"
    /\ UNCHANGED <<cfg, components, ops, earlier>>

\* delete_component(component)
DeleteComponent(component) ==
    /\ pc = "built"
    /\ ops < MaxOps
    /\ ops' = ops + 1
    /\ LET r == Delete(components, connections, nw, component)
       IN  /\ components' = r.components
           /\ connections' = r.connections
           /\ nw' = r.nw
           /\ out' = Report("delete_component", <<component>>, r.result, r.obj)
    /\ UNCHANGED <<cfg, pc, todo, earlier>>

\* set_conn called on the finished object
SetConnCall(call) ==
    /\ pc = "built"
    /\ ops < MaxOps
    /\ ops' = ops + 1
    /\ LET r == SetConn(components, connections, nw, call)
       IN  /\ connections' = r.connections
           /\ nw' = r.nw
           /\ out' = Report("set_conn", CallArgs(call), r.raised, NoComponent)
    /\ UNCHANGED <<cfg, components, pc, todo, earlier>>

\* a second Heatpump(...) call that carries the stores of the first object over
RebuildKeepingStores ==
    /\ pc \in {"built", "aborted"}
    /\ ops = 0
    /\ earlier = NoObject
    /\ earlier' = [pc |-> pc, cfg |-> cfg, components |-> components,
                   connections |-> connections, nw |-> nw]
    /\ pc' = "init"
    /\ todo' = <<>>
    /\ out' = Report("__init__", <<>>, "", NoComponent)
    /\ UNCHANGED <<cfg, components, connections, nw, ops>>

\* Heatpump(...) called a second time with the same arguments: __init__ gives
\* the new object a new Network and new, empty stores; the first object is
\* kept for comparison
Rebuild ==
    /\ pc \in {"built", "aborted"}
    /\ ops = 0
    /\ earlier = NoObject
    /\ earlier' = [pc |-> pc, cfg |-> cfg, components |-> components,
                   connections |-> connections, nw |-> nw]
    /\ components' = EmptyDict
    /\ connections' = EmptyDict
    /\ nw' = EmptyDict
    /\ pc' = "init"
    /\ todo' = <<>>
    /\ out' = Report("__init__", <<>>, "", NoComponent)
    /\ UNCHANGED <<cfg, ops>>

\* the int_heatex dict with every single integer c written as the list [c]
AsLists(int_heatex) == [h \in DOMAIN int_heatex |-> List(int_heatex[h].cold)]

\* Heatpump(...) called a second time with every single cold cycle of
\* int_heatex given as a one-element list; the first object is kept for
\* comparison
RebuildWithLists ==
    /\ pc \in {"built", "aborted"}
    /\ ops = 0
    /\ earlier = NoObject
    /\ \E h \in DOMAIN cfg.int_heatex : ~cfg.int_heatex[h].isList
    /\ earlier' = [pc |-> pc, cfg |-> cfg, components |-> components,
                   connections |-> connections, nw |-> nw]
    /\ cfg' = [cfg EXCEPT !.int_heatex = AsLists(cfg.int_heatex)]
    /\ components' = EmptyDict
    /\ connections' = EmptyDict
    /\ nw' = EmptyDict
    /\ pc' = "init"
    /\ todo' = <<>>
    /\ out' = Report("__init__", <<>>, "", NoComponent)
    /\ UNCHANGED ops

\* names handed to delete_component: every key and every label of the
\* generated components, and a name that was never generated
DeleteNames ==
    LET generated == GeneratedComponents(cfg)
    IN  DOMAIN generated \cup {generated[k].label : k \in DOMAIN generated}
        \cup {"Ghost"}

\* calls handed to set_conn: an existing and a fresh label, present and
\* absent components
UserCalls ==
    {Call(label, comp_out, "out1", comp_in, "in1") :
        label \in {"valve1_to_evaporator1", "user_connection"},
        comp_out \in {"Consumer", "Ghost"},
        comp_in \in {"Consumer Recirculation Pump", "Ghost"}}

NextBuild == GenerateComponents \/ GenerateTopologyStep

Next ==
    \/ GenerateComponents
    \/ GenerateTopologyStep
    \/ \E component \in DeleteNames : DeleteComponent(component)
    \/ \E call \in UserCalls : SetConnCall(call)

Spec == Init /\ [][Next]_vars

SpecBuild == InitBuild /\ [][NextBuild]_vars

\* one construction followed by calls of delete_component only
NextDelete ==
    \/ GenerateComponents
    \/ GenerateTopologyStep
    \/ \E component \in DeleteNames : DeleteComponent(component)

SpecDelete == Init /\ [][NextDelete]_vars

\* the constructor called twice with the same arguments
NextRebuild == GenerateComponents \/ GenerateTopologyStep \/ Rebuild

SpecRebuild == InitBuild /\ [][NextRebuild]_vars

\* the constructor called with single integers, then with one-element lists
NextRelist == GenerateComponents \/ GenerateTopologyStep \/ RebuildWithLists

SpecRelist == InitBuild /\ [][NextRelist]_vars

(***************************************************************************)
(* Vocabulary of the properties.                                           *)
(***************************************************************************)
\* a configuration the docstring allows: at least one cycle, intercoolers in
\* existing cycles with a positive amount and a known type, internal heat
\* exchangers between existing cycles
ValidConfig(conf) ==
    /\ conf.nr_cycles >= 1
    /\ \A c \in DOMAIN conf.intercooler :
          /\ c \in 1..conf.nr_cycles
          /\ conf.intercooler[c].amount >= 1
          /\ conf.intercooler[c].type \in IcTypes
    /\ \A h \in DOMAIN conf.int_heatex :
          /\ h \in 1..conf.nr_cycles
          /\ Range(conf.int_heatex[h].cold) \subseteq 1..conf.nr_cycles

\* the connection references the component object obj
Attached(conn, obj) == conn.source = obj \/ conn.target = obj

\* the step just taken was a call of delete_component
DeleteStep == out'.op = "delete_component" /\ ops' = ops + 1

\* the step just taken was a call of set_conn (by the constructor or by a user)
SetConnStep == out'.op = "set_conn" /\ (ops' = ops + 1 \/ todo' # todo)

(***************************************************************************)
(* C1: after delete_component(name) on a component name present in a       *)
(* topology built from a valid configuration, no connection left in the    *)
(* connection store has the removed component as its source or its target. *)
(***************************************************************************)
C1_NoDanglingConnection ==
    (ValidConfig(cfg) /\ out.op = "delete_component" /\ out.result = "deleted")
        => \A l \in DOMAIN connections : ~Attached(connections[l], out.obj)

(***************************************************************************)
(* C2: delete_component(name) on a present name removes exactly that       *)
(* component from the component store and exactly the connections whose    *)
(* source or target is that component; every other component and every     *)
(* other connection is kept unchanged.                                     *)
(***************************************************************************)
C2_DeleteRemovesExactly ==
    [][\A name \in DOMAIN components :
          (DeleteStep /\ out'.args = <<name>>)
              => /\ components' = Drop(components, name)
                 /\ connections' =
                       [l \in {k \in DOMAIN connections :
                                  ~Attached(connections[k], components[name])}
                          |-> connections[l]]]_vars

(***************************************************************************)
(* C3: delete_component(name) with a name that is not in the component     *)
(* store (also the second of two calls with the same name) raises no error *)
(* and leaves the component store, the connection store and the network's  *)
(* registered connections unchanged.                                       *)
(***************************************************************************)
C3_DeleteAbsentIsNoOp ==
    [][(DeleteStep /\ out'.args[1] \notin DOMAIN components)
          => /\ out'.result = "not found"
             /\ UNCHANGED <<components, connections, nw>>]_vars

\* a second delete_component of a name whose first call removed a component
C3_Witness ==
    /\ out.op = "delete_component"
    /\ out.result = "not found"
    /\ ops = 2
    /\ out.args[1] \in DOMAIN GeneratedComponents(cfg)
    /\ Cardinality(DOMAIN components) = Cardinality(DOMAIN GeneratedComponents(cfg)) - 1

\* the finished object as the constructor returns it
Built == pc = "built" /\ ops = 0

(***************************************************************************)
(* C4: in the topology built from any valid configuration every            *)
(* (component, port) pair is the source of at most one connection and the  *)
(* target of at most one connection.                                       *)
(***************************************************************************)
PortsUsedOnce(conns) ==
    \A l1 \in DOMAIN conns : \A l2 \in (DOMAIN conns) \ {l1} :
        /\ ~(conns[l1].source = conns[l2].source /\ conns[l1].outlet = conns[l2].outlet)
        /\ ~(conns[l1].target = conns[l2].target /\ conns[l1].inlet = conns[l2].inlet)

C4_PortsUsedOnce == (Built /\ ValidConfig(cfg)) => PortsUsedOnce(connections)

(***************************************************************************)
(* C5: for every valid configuration and every cycle c, following the      *)
(* connections from 'Cycle Closer c'.out1 (in1 -> out1 and in2 -> out2     *)
(* through each component) yields one unbranched path that visits Valve c, *)
(* the evaporator or inter-cycle exchanger (c-1,c) cold side, the          *)
(* cold-side internal exchangers, the compression chain, the condenser or  *)
(* inter-cycle exchanger (c,c+1) hot side, the hot-side internal           *)
(* exchangers, and ends at 'Cycle Closer c'.in1.                           *)
(***************************************************************************)
Through(inlet) == IF inlet = "in1" THEN "out1" ELSE "out2"

\* the <<component label, inlet>> pairs met from port `outlet` of obj until
\* the component `stop` is entered; a dead end or a branch ends the walk with
\* the pair <<"", "">>
RECURSIVE Walk(_, _, _, _, _)
Walk(conns, obj, outlet, stop, fuel) ==
    LET next == {l \in DOMAIN conns :
                    conns[l].source = obj /\ conns[l].outlet = outlet}
    IN  IF Cardinality(next) # 1 \/ fuel = 0 THEN << <<"", "">> >>
        ELSE LET conn == conns[CHOOSE l \in next : TRUE]
             IN  << <<conn.target.label, conn.inlet>> >>
                 \o (IF conn.target = stop THEN <<>>
                     ELSE Walk(conns, conn.target, Through(conn.inlet), stop, fuel - 1))

\* the exchangers a valid configuration asks for on the cold and hot side of c
ColdSide(c, conf) ==
    {<<IntHeatexName(h, c), "in2">> :
        h \in {x \in DOMAIN conf.int_heatex : c \in Range(conf.int_heatex[x].cold)}}

HotSide(c, conf) ==
    IF c \in DOMAIN conf.int_heatex
    THEN {<<IntHeatexName(c, t), "in1">> : t \in Range(conf.int_heatex[c].cold)}
    ELSE {}

\* the compression chain of c, from the first compressor to the last
CompressionChain(c, conf) ==
    IF c \in DOMAIN conf.intercooler
    THEN [k \in 1..(2 * conf.intercooler[c].amount + 1) |->
            IF k % 2 = 1 THEN <<CompressorLabel(c, (k + 1) \div 2), "in1">>
            ELSE <<IntercoolerName(c, k \div 2), "in1">>]
    ELSE << <<CompressorName(c), "in1">> >>

CyclePathOk(c, conf, conns, comps) ==
    LET path == Walk(conns, comps[CycleCloserName(c)], "out1",
                     comps[CycleCloserName(c)], Cardinality(DOMAIN conns))
        cold == ColdSide(c, conf)
        hot == HotSide(c, conf)
        chain == CompressionChain(c, conf)
        nCold == Cardinality(cold)
        nHot == Cardinality(hot)
        afterCold == 2 + nCold
        afterChain == afterCold + Len(chain)
    IN  /\ Len(path) = afterChain + 1 + nHot + 1
        /\ path[1] = <<ValveName(c), "in1">>
        /\ path[2] = IF c = 1 THEN <<"Evaporator 1", "in2">>
                     ELSE <<HeatExchangerName(c - 1, c), "in2">>
        /\ Range(SubSeq(path, 3, afterCold)) = cold
        /\ SubSeq(path, afterCold + 1, afterChain) = chain
        /\ path[afterChain + 1] = IF c = conf.nr_cycles THEN <<CondenserName(c), "in1">>
                                  ELSE <<HeatExchangerName(c, c + 1), "in1">>
        /\ Range(SubSeq(path, afterChain + 2, afterChain + 1 + nHot)) = hot
        /\ path[Len(path)] = <<CycleCloserName(c), "in1">>

C5_OnePathPerCycle ==
    (Built /\ ValidConfig(cfg))
        => \A c \in 1..cfg.nr_cycles : CyclePathOk(c, cfg, connections, components)

(***************************************************************************)
(* C6: for nr_cycles = N >= 1 with empty intercooler and empty int_heatex  *)
(* the built topology has exactly N cycle closers of refrigerant cycles,   *)
(* N valves, N compressors, N-1 inter-cycle heat exchangers and one        *)
(* condenser (4N+7 components with the seven fixed units), and 5N+7        *)
(* connections.                                                            *)
(***************************************************************************)
KeysOfKind(comps, kind) == {k \in DOMAIN comps : comps[k].kind = kind}

PlainConfig(conf) == DOMAIN conf.intercooler = {} /\ DOMAIN conf.int_heatex = {}

C6_PlainPlantCounts ==
    (PlainConfig(cfg) /\ pc \in {"built", "aborted"} /\ ops = 0)
        => LET n == cfg.nr_cycles
           IN  /\ pc = "built"
               /\ KeysOfKind(components, "CycleCloser")
                    = {CycleCloserName(c) : c \in 1..n} \cup {"Consumer Cycle Closer"}
               /\ KeysOfKind(components, "Valve") = {ValveName(c) : c \in 1..n}
               /\ KeysOfKind(components, "Compressor") = {CompressorName(c) : c \in 1..n}
               /\ KeysOfKind(components, "HeatExchanger")
                    = {HeatExchangerName(c - 1, c) : c \in 2..n} \cup {"Evaporator 1"}
               /\ KeysOfKind(components, "Condenser") = {CondenserName(n)}
               /\ Cardinality(KeysOfKind(components, "CycleCloser")) = n + 1
               /\ Cardinality(KeysOfKind(components, "Valve")) = n
               /\ Cardinality(KeysOfKind(components, "Compressor")) = n
               /\ Cardinality(KeysOfKind(components, "HeatExchanger")) = n
               /\ Cardinality(DOMAIN components) = 4 * n + 7
               /\ Cardinality(DOMAIN connections) = 5 * n + 7

\* a finished plain plant of three cycles
C6_Witness ==
    /\ Built
    /\ PlainConfig(cfg)
    /\ cfg.nr_cycles = 3
    /\ Cardinality(DOMAIN connections) = 22

(***************************************************************************)
(* C7: for every cycle c with an intercooler spec of amount k >= 1 and a   *)
(* recognised type, the topology contains exactly k+1 compressors and k    *)
(* intercoolers for cycle c (and no 'Compressor c'), wired alternately     *)
(* Compressor c-1 -> Intercooler c-1 -> ... -> Compressor c-(k+1) on       *)
(* out1/in1, and the last compressor feeds in1 of the condenser            *)
(* (c = nr_cycles) or of inter-cycle exchanger (c,c+1).                    *)
(***************************************************************************)
\* the one connection leaving port outlet of src is the one entering port
\* inlet of tgt
Linked(conns, src, outlet, tgt, inlet) ==
    LET leaving == {l \in DOMAIN conns : conns[l].source = src /\ conns[l].outlet = outlet}
        entering == {l \in DOMAIN conns : conns[l].target = tgt /\ conns[l].inlet = inlet}
    IN  Cardinality(leaving) = 1 /\ leaving = entering

RECURSIVE Sum(_, _)
Sum(f, S) ==
    IF S = {} THEN 0
    ELSE LET x == CHOOSE y \in S : TRUE IN f[x] + Sum(f, S \ {x})

\* the number of compressors a valid configuration asks for
CompressorsAskedFor(conf) ==
    Sum([c \in 1..conf.nr_cycles |->
            IF c \in DOMAIN conf.intercooler THEN conf.intercooler[c].amount + 1 ELSE 1],
        1..conf.nr_cycles)

IntercooledCycleOk(c, conf, comps, conns) ==
    LET k == conf.intercooler[c].amount
    IN  /\ \A i \in 1..(k + 1) :
              /\ CompressorKey(c, i) \in DOMAIN comps
              /\ comps[CompressorKey(c, i)].kind = "Compressor"
        /\ \A i \in 1..k :
              /\ IntercoolerName(c, i) \in DOMAIN comps
              /\ comps[IntercoolerName(c, i)].kind = conf.intercooler[c].type
        /\ CompressorKey(c, 0) \notin DOMAIN comps
        /\ CompressorKey(c, k + 2) \notin DOMAIN comps
        /\ CompressorName(c) \notin DOMAIN comps
        /\ IntercoolerName(c, 0) \notin DOMAIN comps
        /\ IntercoolerName(c, k + 1) \notin DOMAIN comps
        /\ \A i \in 1..k :
              /\ Linked(conns, comps[CompressorKey(c, i)], "out1",
                        comps[IntercoolerName(c, i)], "in1")
              /\ Linked(conns, comps[IntercoolerName(c, i)], "out1",
                        comps[CompressorKey(c, i + 1)], "in1")
        /\ Linked(conns, comps[CompressorKey(c, k + 1)], "out1",
                  IF c = conf.nr_cycles THEN comps[CondenserName(c)]
                  ELSE comps[HeatExchangerName(c, c + 1)], "in1")

C7_IntercoolerChain ==
    Built =>
        /\ \A c \in DOMAIN cfg.intercooler :
              (/\ c \in 1..cfg.nr_cycles
               /\ cfg.intercooler[c].amount >= 1
               /\ cfg.intercooler[c].type \in IcTypes)
                  => IntercooledCycleOk(c, cfg, components, connections)
        /\ ValidConfig(cfg)
              => Cardinality(KeysOfKind(components, "Compressor"))
                    = CompressorsAskedFor(cfg)

\* the two-cycle plant with two intercoolers in the second cycle
C7_Witness ==
    /\ Built
    /\ cfg.nr_cycles = 2
    /\ DOMAIN cfg.intercooler = {2}
    /\ cfg.intercooler[2] = [amount |-> 2, type |-> "HeatExchanger"]
    /\ "intercooler2-2_to_comp2-3" \in DOMAIN connections

(***************************************************************************)
(* C8: set_conn called with a label that already exists in the connection  *)
(* store fails with a duplicate-label error and leaves the existing        *)
(* connection under that label, the rest of the store and the network's    *)
(* registered connections unchanged.                                       *)
(***************************************************************************)
C8_DuplicateLabelRejected ==
    [][(SetConnStep /\ out'.args[1] \in DOMAIN connections)
          => /\ out'.result # ""
             /\ UNCHANGED <<connections, nw>>]_vars

(***************************************************************************)
(* C9: set_conn called with a source or target component name that is      *)
(* absent from the component store fails with an error, and neither the    *)
(* connection store nor the network's registered connections is changed.   *)
(***************************************************************************)
C9_UnknownComponentRejected ==
    [][(SetConnStep /\ (out'.args[2] \notin DOMAIN components
                        \/ out'.args[4] \notin DOMAIN components))
          => /\ out'.result = "KeyError"
             /\ UNCHANGED <<connections, nw>>]_vars

\* a user's set_conn naming a component that was deleted before has failed
C9_Witness ==
    /\ out.op = "set_conn"
    /\ out.result = "KeyError"
    /\ ops = 2
    /\ out.args[2] = "Consumer"
    /\ "Consumer" \notin DOMAIN components
    /\ "user_connection" \notin DOMAIN connections

(***************************************************************************)
(* C10: an intercooler spec whose type is outside the two recognised kinds *)
(* is rejected with a configuration error by the component generator; the  *)
(* generator never completes having created the cycle's compressors        *)
(* without its intercoolers.                                               *)
(***************************************************************************)
\* the only defect of the configuration is an intercooler type outside the
\* two recognised kinds
OnlyIcTypeUnknown(conf) ==
    /\ ValidConfig([conf EXCEPT !.intercooler =
                      [c \in DOMAIN conf.intercooler |->
                          [conf.intercooler[c] EXCEPT !.type = "HeatExchanger"]]])
    /\ \E c \in DOMAIN conf.intercooler : conf.intercooler[c].type \notin IcTypes

C10_UnknownTypeRejected ==
    OnlyIcTypeUnknown(cfg)
        => \/ pc = "init"
           \/ pc = "aborted" /\ out.op = "generate_components"

(***************************************************************************)
(* C11: building with an int_heatex map that contains an out-of-range      *)
(* cycle index (a hot-cycle key or a cold-cycle value outside              *)
(* 1..nr_cycles) raises a configuration error; construction never          *)
(* completes successfully with that entry ignored or with an internal heat *)
(* exchanger whose cold-side ports are left unconnected.                   *)
(***************************************************************************)
\* the only defect of the configuration is a cycle index of int_heatex
\* outside 1..nr_cycles
OnlyIhOutOfRange(conf) ==
    /\ ValidConfig([conf EXCEPT !.int_heatex = EmptyDict])
    /\ ~ValidConfig(conf)

C11_OutOfRangeIndexRejected == OnlyIhOutOfRange(cfg) => pc # "built"

(***************************************************************************)
(* C12: building with an intercooler spec whose amount is zero or negative *)
(* raises a configuration error; construction never completes successfully *)
(* for amount = 0.                                                         *)
(***************************************************************************)
\* the only defect of the configuration is an intercooler amount below one
OnlyIcAmountNonPositive(conf) ==
    /\ ValidConfig([conf EXCEPT !.intercooler =
                      [c \in DOMAIN conf.intercooler |->
                          [conf.intercooler[c] EXCEPT !.amount = 1]]])
    /\ \E c \in DOMAIN conf.intercooler : conf.intercooler[c].amount < 1

C12_NonPositiveAmountRejected == OnlyIcAmountNonPositive(cfg) => pc # "built"

(***************************************************************************)
(* C13: whenever construction aborts because wiring of cycle c references  *)
(* a component the generator did not produce, the error is raised before   *)
(* any connection of cycle c has been added: at the abort neither the      *)
(* connection store nor the network holds a connection created in cycle    *)
(* c's wiring step.                                                        *)
(***************************************************************************)
\* the set_conn calls generate_topology makes before the pass of cycle c
CallsBefore(c, comps, conf) ==
    FixedCalls(conf) \o Flatten([k \in 1..(c - 1) |-> CycleCalls(k, comps, conf)])

\* the cycle in whose pass the call at position pos is made (0: before the loop)
CycleOfPosition(pos, comps, conf) ==
    IF pos <= Len(FixedCalls(conf)) THEN 0
    ELSE CHOOSE c \in 1..conf.nr_cycles :
            /\ Len(CallsBefore(c, comps, conf)) < pos
            /\ pos <= Len(CallsBefore(c + 1, comps, conf))

C13_CycleWiringAllOrNothing ==
    [][(pc = "wiring" /\ pc' = "aborted" /\ out'.result = "KeyError")
          => LET all == TopologyCalls(components, cfg)
                 pos == Len(all) - Len(todo) + 1
                 c == CycleOfPosition(pos, components, cfg)
                 made == {all[k].label :
                             k \in (Len(CallsBefore(c, components, cfg)) + 1)..(pos - 1)}
             IN  /\ c >= 1
                 /\ made \cap DOMAIN connections' = {}
                 /\ made \cap DOMAIN nw' = {}]_vars

(***************************************************************************)
(* C14: after one topology build followed by any number of                 *)
(* delete_component calls, the connections registered with the Network     *)
(* equal the connections in the connection store: every created connection *)
(* was registered exactly once and every connection removed from the store *)
(* was deregistered.                                                       *)
(***************************************************************************)
C14_NetworkMatchesStore == pc = "built" => nw = connections

\* two delete_component calls that each took connections out of the store
C14_Witness ==
    /\ pc = "built"
    /\ ops = 2
    /\ out.op = "delete_component"
    /\ out.result = "deleted"
    /\ \E l \in DOMAIN connections : TRUE
    /\ Cardinality(DOMAIN connections) + 4
          <= Len(TopologyCalls(GeneratedComponents(cfg), cfg))
    /\ \A l \in DOMAIN connections : ~Attached(connections[l], out.obj)
    /\ \E c \in Range(TopologyCalls(GeneratedComponents(cfg), cfg)) :
          /\ c.label \notin DOMAIN connections
          /\ out.obj.label \in {c.comp_out, c.comp_in}

(***************************************************************************)
(* C15: for every internal heat exchanger (h, c) of a valid configuration  *)
(* exactly one component is created for the pair, all four of its ports    *)
(* are connected exactly once, its cold side (in2/out2) lies on cycle c's  *)
(* loop between the upstream cold output (evaporator out2 for c = 1,       *)
(* inter-cycle exchanger out2 otherwise) and the cycle's compression       *)
(* input, and its hot side (in1/out1) lies on cycle h's loop between the   *)
(* condenser or inter-cycle exchanger hot output and 'Cycle Closer h'.in1. *)
(***************************************************************************)
\* the key of the component whose out2 is the upstream cold output of cycle c
UpstreamCold(c) == IF c = 1 THEN "Evaporator 1" ELSE HeatExchangerName(c - 1, c)

\* the key of the component whose out1 is the hot output of cycle c
HotOutput(c, conf) ==
    IF c = conf.nr_cycles THEN CondenserName(c) ELSE HeatExchangerName(c, c + 1)

\* the key of the first compressor of cycle c
FirstCompressor(c, conf) ==
    IF c \in DOMAIN conf.intercooler THEN CompressorKey(c, 1) ELSE CompressorName(c)

\* the number of connections entering, and leaving, a port of obj
NrEntering(conns, obj, inlet) ==
    Cardinality({l \in DOMAIN conns : conns[l].target = obj /\ conns[l].inlet = inlet})

NrLeaving(conns, obj, outlet) ==
    Cardinality({l \in DOMAIN conns : conns[l].source = obj /\ conns[l].outlet = outlet})

ExchangerOk(h, c, conf, comps, conns) ==
    LET name == IntHeatexName(h, c)
        fuel == Cardinality(DOMAIN conns)
    IN  /\ name \in DOMAIN comps
        /\ Cardinality({k \in DOMAIN comps : comps[k].label = name}) = 1
        /\ comps[name].kind = "HeatExchanger"
        /\ NrEntering(conns, comps[name], "in1") = 1
        /\ NrEntering(conns, comps[name], "in2") = 1
        /\ NrLeaving(conns, comps[name], "out1") = 1
        /\ NrLeaving(conns, comps[name], "out2") = 1
        /\ LET cold == Walk(conns, comps[UpstreamCold(c)], "out2",
                            comps[FirstCompressor(c, conf)], fuel)
           IN  /\ <<name, "in2">> \in Range(cold)
               /\ cold[Len(cold)] = <<comps[FirstCompressor(c, conf)].label, "in1">>
        /\ LET hot == Walk(conns, comps[HotOutput(h, conf)], "out1",
                           comps[CycleCloserName(h)], fuel)
           IN  /\ <<name, "in1">> \in Range(hot)
               /\ hot[Len(hot)] = <<CycleCloserName(h), "in1">>

C15_InternalExchangerWired ==
    (ValidConfig(cfg) /\ pc \in {"built", "aborted"})
        => /\ pc = "built"
           /\ \A h \in DOMAIN cfg.int_heatex : \A c \in Range(cfg.int_heatex[h].cold) :
                 ExchangerOk(h, c, cfg, components, connections)

(***************************************************************************)
(* C16: in a 3-cycle plant with int_heatex = {1: 3, 2: 3} (hot cycles 1    *)
(* and 2 both targeting cold cycle 3) the two internal heat exchangers are *)
(* chained at cycle 3 in descending order of hot-cycle index: the          *)
(* exchanger of hot cycle 2 is encountered before the exchanger of hot     *)
(* cycle 1 along cycle 3's path.                                           *)
(* As the generator is written the order at cycle 3 is ascending: the      *)
(* exchanger of hot cycle 1 is encountered before the exchanger of hot     *)
(* cycle 2 (C16_AscendingAtColdCycle); the descending order of the         *)
(* statement is C16_DescendingAtColdCycle.                                 *)
(***************************************************************************)
\* nr_cycles = 3 and int_heatex = {1: 3, 2: 3}
NestingFixture(conf) ==
    /\ conf.nr_cycles = 3
    /\ DOMAIN conf.int_heatex = {1, 2}
    /\ Range(conf.int_heatex[1].cold) = {3}
    /\ Range(conf.int_heatex[2].cold) = {3}

\* the place of entry e on a path, 0 if the path does not pass it
Position(path, e) ==
    IF e \in Range(path) THEN CHOOSE i \in 1..Len(path) : path[i] = e ELSE 0

\* the loop of cycle c, walked from the outlet of its cycle closer
CyclePath(c, comps, conns) ==
    Walk(conns, comps[CycleCloserName(c)], "out1", comps[CycleCloserName(c)],
         Cardinality(DOMAIN conns))

C16_AscendingAtColdCycle ==
    (NestingFixture(cfg) /\ pc \in {"built", "aborted"})
        => /\ pc = "built"
           /\ LET path == CyclePath(3, components, connections)
                  first == Position(path, <<IntHeatexName(1, 3), "in2">>)
                  second == Position(path, <<IntHeatexName(2, 3), "in2">>)
              IN  0 < first /\ first < second

C16_DescendingAtColdCycle ==
    (NestingFixture(cfg) /\ pc \in {"built", "aborted"})
        => /\ pc = "built"
           /\ LET path == CyclePath(3, components, connections)
                  first == Position(path, <<IntHeatexName(2, 3), "in2">>)
                  second == Position(path, <<IntHeatexName(1, 3), "in2">>)
              IN  0 < first /\ first < second

\* the finished fixture, with its two exchangers linked on the cold side
C16_Witness ==
    /\ Built
    /\ NestingFixture(cfg)
    /\ "int_heatex2_3_to_comp3" \in DOMAIN connections
    /\ \E l \in DOMAIN connections :
          /\ connections[l].source.label = IntHeatexName(1, 3)
          /\ connections[l].target.label = IntHeatexName(2, 3)
          /\ connections[l].outlet = "out2" /\ connections[l].inlet = "in2"

FixedKeys(conf) ==
    {"Heat Source Feed Flow", "Heat Source Recirculation Pump", "Evaporator 1",
     "Heat Source Back Flow", "Valve 1", "Consumer Cycle Closer",
     "Consumer Recirculation Pump", "Consumer", CondenserName(conf.nr_cycles)}

FixedWiringOk(conf, comps, conns) ==
    /\ FixedKeys(conf) \subseteq DOMAIN comps
    /\ Linked(conns, comps["Heat Source Feed Flow"], "out1",
              comps["Heat Source Recirculation Pump"], "in1")
    /\ Linked(conns, comps["Heat Source Recirculation Pump"], "out1",
              comps["Evaporator 1"], "in1")
    /\ Linked(conns, comps["Evaporator 1"], "out1", comps["Heat Source Back Flow"], "in1")
    /\ Linked(conns, comps["Valve 1"], "out1", comps["Evaporator 1"], "in2")
    /\ Linked(conns, comps["Consumer Cycle Closer"], "out1",
              comps["Consumer Recirculation Pump"], "in1")
    /\ Linked(conns, comps["Consumer Recirculation Pump"], "out1",
              comps[CondenserName(conf.nr_cycles)], "in2")
    /\ Linked(conns, comps[CondenserName(conf.nr_cycles)], "out2", comps["Consumer"], "in1")
    /\ Linked(conns, comps["Consumer"], "out1", comps["Consumer Cycle Closer"], "in1")
    /\ Walk(conns, comps["Consumer Cycle Closer"], "out1", comps["Consumer Cycle Closer"],
            Cardinality(DOMAIN conns))
          = << <<"Consumer Recirculation Pump", "in1">>,
               <<CondenserName(conf.nr_cycles), "in2">>,
               <<"Consumer", "in1">>,
               <<"Consumer Cycle Closer", "in1">> >>

C18_FixedWiring ==
    (cfg.nr_cycles >= 1 /\ pc \in {"built", "aborted"})
        => FixedWiringOk(cfg, components, connections)

\* a finished three-cycle plant with an exchanger on the evaporator's cold
\* outlet, its consumer loop running through 'Condenser 3'
C18_Witness ==
    /\ Built
    /\ cfg.nr_cycles = 3
    /\ "heatsink_pump_to_cond3" \in DOMAIN connections
    /\ connections["heatsink_pump_to_cond3"].target = components["Condenser 3"]
    /\ \E h \in DOMAIN cfg.int_heatex : 1 \in Range(cfg.int_heatex[h].cold)

(***************************************************************************)
(* C19: for every cycle c the cold-side chain contains exactly the         *)
(* internal heat exchangers whose cold-cycle index equals c, ordered       *)
(* ascending by hot-cycle index and linked out2 -> in2; the first is fed   *)
(* by the upstream cold output, the last feeds the first compressor of the *)
(* cycle, and when the chain is empty the upstream cold output feeds the   *)
(* compressor directly.                                                    *)
(***************************************************************************)
\* the hot cycles of the exchangers with cold cycle c, in ascending order
ColdSideAscending(c, conf) ==
    SelectSeq([h \in 1..conf.nr_cycles |-> h],
              LAMBDA h : h \in DOMAIN conf.int_heatex
                         /\ c \in Range(conf.int_heatex[h].cold))

ColdChainOk(c, conf, comps, conns) ==
    LET hots == ColdSideAscending(c, conf)
        compressor == comps[FirstCompressor(c, conf)]
        path == Walk(conns, comps[UpstreamCold(c)], "out2", compressor,
                     Cardinality(DOMAIN conns))
    IN  /\ path = [k \in 1..Len(hots) |-> <<IntHeatexName(hots[k], c), "in2">>]
                  \o << <<compressor.label, "in1">> >>
        /\ \A k \in 1..Len(hots) :
              NrEntering(conns, comps[IntHeatexName(hots[k], c)], "in2") = 1
        /\ NrEntering(conns, compressor, "in1") = 1

C19_ColdSideChain ==
    (ValidConfig(cfg) /\ pc \in {"built", "aborted"})
        => /\ pc = "built"
           /\ \A c \in 1..cfg.nr_cycles : ColdChainOk(c, cfg, components, connections)

(***************************************************************************)
(* C20: for every cycle c with several internal heat exchangers on its hot *)
(* side, they are linked out1 -> in1 in strictly descending order of the   *)
(* numeric cold-cycle index, for every pair of cold-cycle indices          *)
(* (including indices of ten or more, where numeric and textual order      *)
(* differ).                                                                *)
(***************************************************************************)
\* t2 is the next cold-cycle index below t1 among the indices ts
NextBelow(t1, t2, ts) == t2 < t1 /\ ~\E t \in ts : t2 < t /\ t < t1

HotOrderOk(c, conf, comps, conns) ==
    LET ts == Range(conf.int_heatex[c].cold)
    IN  \A t1 \in ts : \A t2 \in ts :
            NextBelow(t1, t2, ts)
                => Linked(conns, comps[IntHeatexName(c, t1)], "out1",
                          comps[IntHeatexName(c, t2)], "in1")

C20_HotSideNumericOrder ==
    (Built /\ ValidConfig(cfg))
        => \A c \in DOMAIN cfg.int_heatex : HotOrderOk(c, cfg, components, connections)

(***************************************************************************)
(* C21: for every nr_cycles (including nr_cycles >= 10) and every cycle c, *)
(* the hot-side chain wired for cycle c contains exactly the internal heat *)
(* exchangers whose hot-cycle index equals c and no internal heat          *)
(* exchanger of another hot cycle.                                         *)
(***************************************************************************)
\* the <<name, inlet>> pairs between the hot output of cycle c and its cycle
\* closer
HotChainOf(c, conf, comps, conns) ==
    LET path == Walk(conns, comps[HotOutput(c, conf)], "out1",
                     comps[CycleCloserName(c)], Cardinality(DOMAIN conns))
    IN  Range(path) \ {<<CycleCloserName(c), "in1">>}

C21_HotSideOwnExchangers ==
    (Built /\ ValidConfig(cfg))
        => \A c \in 1..cfg.nr_cycles :
              HotChainOf(c, cfg, components, connections) = HotSide(c, cfg)

(***************************************************************************)
(* C22: in the component store of every built topology each key equals the *)
(* name (label) carried by the component it maps to, so a component looked *)
(* up by the name that appears as a connection's source or target is found *)
(* under that same name.                                                   *)
(***************************************************************************)
C22_KeyEqualsLabel ==
    (Built /\ ValidConfig(cfg))
        => /\ \A k \in DOMAIN components : components[k].label = k
           /\ \A l \in DOMAIN connections :
                 /\ connections[l].source.label \in DOMAIN components
                 /\ connections[l].target.label \in DOMAIN components

(***************************************************************************)
(* C23: during construction from any valid configuration set_conn is never *)
(* called with a label that is already in the connection store: the number *)
(* of connections in the finished store equals the number of set_conn      *)
(* calls made, and no two components share a name.                         *)
(***************************************************************************)
C23_LabelsUnique ==
    [][(ValidConfig(cfg) /\ pc = "wiring" /\ SetConnStep)
          => /\ out'.args[1] \notin DOMAIN connections
             /\ pc' = "built"
                   => /\ Cardinality(DOMAIN connections')
                           = Len(TopologyCalls(components, cfg))
                      /\ \A k1 \in DOMAIN components : \A k2 \in DOMAIN components :
                            components[k1].label = components[k2].label => k1 = k2]_vars

(***************************************************************************)
(* C24: in every topology built successfully, and at every step of         *)
(* construction, the source component and the target component of every    *)
(* connection in the connection store are members of the component store   *)
(* (all components are generated before the first connection is made).     *)
(***************************************************************************)
\* the component objects held by the store
Stored(comps) == {comps[k] : k \in DOMAIN comps}

C24_EndpointsInStore ==
    ops = 0
        => /\ \A l \in DOMAIN connections :
                 /\ connections[l].source \in Stored(components)
                 /\ connections[l].target \in Stored(components)
           /\ (DOMAIN connections # {} \/ pc # "init")
                 => components = GeneratedComponents(cfg)

\* a construction that has made connections and then failed on a component
\* the generator did not produce
C24_Witness ==
    /\ pc = "aborted"
    /\ out.result = "KeyError"
    /\ Cardinality(DOMAIN connections) > 8
    /\ \E l \in DOMAIN connections : connections[l].source.kind = "Compressor"

(***************************************************************************)
(* C25: an int_heatex entry given as a single cold-cycle integer (h: c)    *)
(* produces exactly the same components and connections as the same entry *)
(* given as a one-element list (h: [c]), for every h and c in              *)
(* 1..nr_cycles.                                                           *)
(***************************************************************************)
\* the running object was constructed from the arguments of the earlier one
\* with its single integers turned into one-element lists
RebuiltWithLists ==
    /\ earlier # NoObject
    /\ \E h \in DOMAIN earlier.cfg.int_heatex : ~earlier.cfg.int_heatex[h].isList
    /\ cfg = [earlier.cfg EXCEPT !.int_heatex = AsLists(earlier.cfg.int_heatex)]

C25_IntegerEqualsOneElementList ==
    (RebuiltWithLists /\ pc \in {"built", "aborted"})
        => /\ pc = earlier.pc
           /\ components = earlier.components
           /\ connections = earlier.connections
           /\ nw = earlier.nw

\* a three-cycle plant with the exchanger (3, 1), built from {3: 1} and then
\* from {3: [1]}
C25_Witness ==
    /\ RebuiltWithLists
    /\ pc = "built"
    /\ earlier.pc = "built"
    /\ cfg.nr_cycles = 3
    /\ DOMAIN cfg.int_heatex = {3}
    /\ cfg.int_heatex[3] = List(<<1>>)
    /\ earlier.cfg.int_heatex[3] = Single(1)
    /\ "evaporator1_to_int_heatex3_1" \in DOMAIN connections

(***************************************************************************)
(* The refrigerant loops of the three fixed example networks               *)
(* (src/models/heatpump_simple.py, heatpump_two_cycle.py,                  *)
(* heatpump_int_heatex.py): the connections that carry refrigerant, by     *)
(* label, between the component objects of the script.                     *)
(***************************************************************************)
\* the dict label -> connection of a set of Connection objects
ByLabel(conns) == [l \in {conn.label : conn \in conns} |->
                      CHOOSE conn \in conns : conn.label = l]

\* heatpump_simple.py: con01, con05, con06, con11, con12
SimpleFixture ==
    LET cycle_closer == Component("Refrigerant Cycle Closer", "CycleCloser")
        heatsource_heatexchanger == Component("Heat Source Heat Exchanger", "HeatExchanger")
        compressor == Component("Compressor", "Compressor")
        condenser == Component("Heat Sink Condenser", "Condenser")
        valve == Component("Expansion Valve", "Valve")
    IN  ByLabel({Connection(cycle_closer, "out1", heatsource_heatexchanger, "in2", "con01"),
                 Connection(heatsource_heatexchanger, "out2", compressor, "in1", "con05"),
                 Connection(compressor, "out1", condenser, "in1", "con06"),
                 Connection(condenser, "out1", valve, "in1", "con11"),
                 Connection(valve, "out1", cycle_closer, "in1", "con12")})

\* heatpump_two_cycle.py: con01, con05 to con11, con16, con17
TwoCycleFixture ==
    LET cycle_closer_lp == Component("Refrigerant Cycle Closer LP", "CycleCloser")
        heatsource_heatexchanger == Component("Heat Source Heat Exchanger", "HeatExchanger")
        compressor_lp == Component("Compressor LP", "Compressor")
        valve_lp == Component("Expansion Valve LP", "Valve")
        intermediate_heatexchanger ==
            Component("Intermediate Heat Exchanger", "HeatExchanger")
        cycle_closer_hp == Component("Refrigerant Cycle Closer HP", "CycleCloser")
        condenser == Component("Heat Sink Condenser", "Condenser")
        compressor_hp == Component("Compressor HP", "Compressor")
        valve_hp == Component("Expansion Valve HP", "Valve")
    IN  ByLabel({Connection(cycle_closer_lp, "out1", heatsource_heatexchanger, "in2", "con01"),
                 Connection(heatsource_heatexchanger, "out2", compressor_lp, "in1", "con05"),
                 Connection(compressor_lp, "out1", intermediate_heatexchanger, "in1", "con06"),
                 Connection(intermediate_heatexchanger, "out1", valve_lp, "in1", "con07"),
                 Connection(valve_lp, "out1", cycle_closer_lp, "in1", "con08"),
                 Connection(cycle_closer_hp, "out1", intermediate_heatexchanger, "in2", "con09"),
                 Connection(intermediate_heatexchanger, "out2", compressor_hp, "in1", "con10"),
                 Connection(compressor_hp, "out1", condenser, "in1", "con11"),
                 Connection(condenser, "out1", valve_hp, "in1", "con16"),
                 Connection(valve_hp, "out1", cycle_closer_hp, "in1", "con17")})

\* heatpump_int_heatex.py: con01, con05, con06, con07, con12, con13, con14
IntHeatexFixture ==
    LET cycle_closer == Component("Refrigerant Cycle Closer", "CycleCloser")
        heatsource_heatexchanger == Component("Heat Source Heat Exchanger", "HeatExchanger")
        compressor == Component("Compressor", "Compressor")
        condenser == Component("Heat Sink Condenser", "Condenser")
        int_heatex == Component("Internal Heat Exchanger", "HeatExchanger")
        valve == Component("Expansion Valve", "Valve")
    IN  ByLabel({Connection(cycle_closer, "out1", heatsource_heatexchanger, "in2", "con01"),
                 Connection(heatsource_heatexchanger, "out2", int_heatex, "in2", "con05"),
                 Connection(int_heatex, "out2", compressor, "in1", "con06"),
                 Connection(compressor, "out1", condenser, "in1", "con07"),
                 Connection(condenser, "out1", int_heatex, "in1", "con12"),
                 Connection(int_heatex, "out1", valve, "in1", "con13"),
                 Connection(valve, "out1", cycle_closer, "in1", "con14")})

(***************************************************************************)
(* C26: the generic builder reproduces the fixed example networks up to    *)
(* the position of cycle closers: with nr_cycles=1 and no options the      *)
(* refrigerant loop visits evaporator cold side -> compressor -> condenser *)
(* hot side -> valve -> evaporator as in the simple fixture; with          *)
(* nr_cycles=2 the two loops are coupled through one inter-cycle exchanger *)
(* (cycle 1 on in1/out1, cycle 2 on in2/out2) as in the two-cycle fixture; *)
(* with nr_cycles=1 and int_heatex={1: 1} the internal exchanger sits on   *)
(* in2/out2 between evaporator and compressor and on in1/out1 between      *)
(* condenser and valve as in the internal-heat-exchanger fixture.          *)
(***************************************************************************)
\* the component of the generic builder that plays the part of a component
\* of a fixture
GenericName ==
    [simple |-> ("Heat Source Heat Exchanger" :> "Evaporator 1")
                @@ ("Compressor" :> "Compressor 1")
                @@ ("Heat Sink Condenser" :> "Condenser 1")
                @@ ("Expansion Valve" :> "Valve 1"),
     two_cycle |-> ("Heat Source Heat Exchanger" :> "Evaporator 1")
                   @@ ("Compressor LP" :> "Compressor 1")
                   @@ ("Intermediate Heat Exchanger" :> "Heat Exchanger 1_2")
                   @@ ("Expansion Valve LP" :> "Valve 1")
                   @@ ("Compressor HP" :> "Compressor 2")
                   @@ ("Heat Sink Condenser" :> "Condenser 2")
                   @@ ("Expansion Valve HP" :> "Valve 2"),
     int_heatex |-> ("Heat Source Heat Exchanger" :> "Evaporator 1")
                    @@ ("Internal Heat Exchanger" :> "Internal Heat Exchanger 1_1")
                    @@ ("Compressor" :> "Compressor 1")
                    @@ ("Heat Sink Condenser" :> "Condenser 1")
                    @@ ("Expansion Valve" :> "Valve 1")]

\* the component object with a given label among the endpoints of conns
Endpoint(conns, label) ==
    CHOOSE obj \in {conns[l].source : l \in DOMAIN conns}
                   \cup {conns[l].target : l \in DOMAIN conns} : obj.label = label

\* the loop through cycle closer `closer`, without the closer itself: the
\* <<label, kind, inlet>> of the components passed
Loop(conns, closer) ==
    LET obj == Endpoint(conns, closer)
        path == Walk(conns, obj, "out1", obj, Cardinality(DOMAIN conns))
    IN  [k \in 1..(Len(path) - 1) |->
            <<path[k][1],
              IF path[k][1] = "" THEN "" ELSE Endpoint(conns, path[k][1]).kind,
              path[k][2]>>]

Rotations(s) == {SubSeq(s, k, Len(s)) \o SubSeq(s, 1, k - 1) : k \in 1..Len(s)}

\* the fixture loop, its components renamed, is the generic loop started at
\* another component
SameLoop(fixture, fixtureCloser, names, conns, c) ==
    LET fix == Loop(fixture, fixtureCloser)
        renamed == [k \in 1..Len(fix) |-> <<names[fix[k][1]], fix[k][2], fix[k][3]>>]
    IN  /\ \A k \in 1..Len(fix) : fix[k][1] \in DOMAIN names
        /\ Len(fix) >= 4
        /\ renamed \in Rotations(Loop(conns, CycleCloserName(c)))

C26_FixturesReproduced ==
    (Built /\ DOMAIN cfg.intercooler = {})
        => /\ (cfg.nr_cycles = 1 /\ DOMAIN cfg.int_heatex = {})
                 => SameLoop(SimpleFixture, "Refrigerant Cycle Closer",
                             GenericName.simple, connections, 1)
           /\ (cfg.nr_cycles = 2 /\ DOMAIN cfg.int_heatex = {})
                 => /\ SameLoop(TwoCycleFixture, "Refrigerant Cycle Closer LP",
                                GenericName.two_cycle, connections, 1)
                    /\ SameLoop(TwoCycleFixture, "Refrigerant Cycle Closer HP",
                                GenericName.two_cycle, connections, 2)
           /\ (/\ cfg.nr_cycles = 1
               /\ DOMAIN cfg.int_heatex = {1}
               /\ cfg.int_heatex[1].cold = <<1>>)
                 => SameLoop(IntHeatexFixture, "Refrigerant Cycle Closer",
                             GenericName.int_heatex, connections, 1)

\* the finished one-cycle plant with int_heatex = {1: 1}
C26_Witness ==
    /\ Built
    /\ DOMAIN cfg.intercooler = {}
    /\ cfg.nr_cycles = 1
    /\ DOMAIN cfg.int_heatex = {1}
    /\ cfg.int_heatex[1] = Single(1)
    /\ Len(Loop(connections, CycleCloserName(1))) = 6

(***************************************************************************)
(* C27: for a cycle c that has both an intercooler spec and internal heat  *)
(* exchangers (on its cold side, its hot side, or both) the builder        *)
(* composes them rather than choosing one: the last cold-chain exchanger's *)
(* out2 feeds 'Compressor c-1'.in1, the alternating compressor/intercooler *)
(* chain follows, and the hot-side chain follows the condenser or          *)
(* inter-cycle exchanger, so the cycle is still a single unbranched loop   *)
(* with every refrigerant port used once.                                  *)
(***************************************************************************)
\* cycle c has an intercooler spec and at least one internal heat exchanger
HasBoth(c, conf) ==
    /\ c \in DOMAIN conf.intercooler
    /\ ColdSide(c, conf) \cup HotSide(c, conf) # {}

C27_IntercoolerAndExchangerCompose ==
    (ValidConfig(cfg) /\ pc \in {"built", "aborted"}
     /\ \E c \in 1..cfg.nr_cycles : HasBoth(c, cfg))
        => /\ pc = "built"
           /\ PortsUsedOnce(connections)
           /\ \A c \in 1..cfg.nr_cycles :
                 HasBoth(c, cfg) => CyclePathOk(c, cfg, connections, components)

(***************************************************************************)
(* C28: for every valid configuration with nr_cycles = N, intercooler      *)
(* amounts k_c and a set X of distinct internal heat exchanger pairs, the  *)
(* built topology has exactly 4N + 7 + sum over c of 2*k_c + |X|           *)
(* components and exactly 5N + 7 + sum over c of 2*k_c + 2*|X|             *)
(* connections.                                                            *)
(***************************************************************************)
\* the distinct pairs <<hot cycle, cold cycle>> of a configuration
ExchangerPairs(conf) ==
    UNION {{<<h, t>> : t \in Range(conf.int_heatex[h].cold)} : h \in DOMAIN conf.int_heatex}

\* the sum over the cycles with an intercooler spec of twice the amount
TwiceTheAmounts(conf) ==
    Sum([c \in DOMAIN conf.intercooler |-> 2 * conf.intercooler[c].amount],
        DOMAIN conf.intercooler)

C28_Counts ==
    (Built /\ ValidConfig(cfg))
        => LET n == cfg.nr_cycles
               k2 == TwiceTheAmounts(cfg)
               x == Cardinality(ExchangerPairs(cfg))
           IN  /\ Cardinality(DOMAIN components) = 4 * n + 7 + k2 + x
               /\ Cardinality(DOMAIN connections) = 5 * n + 7 + k2 + 2 * x

(***************************************************************************)
(* C29: the builder connects only ports in1 and out1 of every intercooler: *)
(* when the intercooler type is the two-stream heat exchanger, no          *)
(* connection in the built topology has an intercooler's in2 as target or  *)
(* an intercooler's out2 as source.                                        *)
(***************************************************************************)
\* the intercooler objects in the component store
Intercoolers(conf, comps) ==
    {comps[k] : k \in {IntercoolerName(c, i) :
                          c \in DOMAIN conf.intercooler, i \in 0..(MaxAmount + 1)}
                      \cap DOMAIN comps}

C29_IntercoolerSecondStreamOpen ==
    ops = 0
        => /\ \A l \in DOMAIN connections :
                 /\ ~(connections[l].target \in Intercoolers(cfg, components)
                      /\ connections[l].inlet # "in1")
                 /\ ~(connections[l].source \in Intercoolers(cfg, components)
                      /\ connections[l].outlet # "out1")
           /\ Built
                 => \A ic \in Intercoolers(cfg, components) :
                       /\ NrEntering(connections, ic, "in1") = 1
                       /\ NrLeaving(connections, ic, "out1") = 1
                       /\ NrEntering(connections, ic, "in2") = 0
                       /\ NrLeaving(connections, ic, "out2") = 0

\* a finished plant with two two-stream intercoolers in its second cycle
C29_Witness ==
    /\ Built
    /\ cfg.nr_cycles = 2
    /\ 2 \in DOMAIN cfg.intercooler
    /\ cfg.intercooler[2].type = "HeatExchanger"
    /\ cfg.intercooler[2].amount = 2
    /\ Cardinality(Intercoolers(cfg, components)) >= 2
    /\ \A ic \in Intercoolers(cfg, components) : ic.kind = "HeatExchanger"

(***************************************************************************)
(* C30: deletions commute: for any two component names a and b of a built  *)
(* topology, delete_component(a) followed by delete_component(b) leaves   *)
(* the same component store, connection store and network registrations   *)
(* as delete_component(b) followed by delete_component(a).                 *)
(***************************************************************************)
\* the three fields after delete_component(first); delete_component(second)
AfterBoth(comps, conns, net, first, second) ==
    LET one == Delete(comps, conns, net, first)
        two == Delete(one.components, one.connections, one.nw, second)
    IN  <<two.components, two.connections, two.nw>>

C30_DeletionsCommute ==
    [][(Built /\ DeleteStep)
          => \A b \in DeleteNames :
                LET a == out'.args[1]
                    ab == Delete(components', connections', nw', b)
                IN  /\ <<ab.components, ab.connections, ab.nw>>
                          = AfterBoth(components, connections, nw, a, b)
                    /\ AfterBoth(components, connections, nw, a, b)
                          = AfterBoth(components, connections, nw, b, a)]_vars

\* two different components that shared a connection were deleted one after
\* the other
C30_Witness ==
    /\ pc = "built"
    /\ ops = 2
    /\ out.op = "delete_component"
    /\ out.result = "deleted"
    /\ Cardinality(DOMAIN components) + 2 = Cardinality(DOMAIN GeneratedComponents(cfg))
    /\ \E c \in Range(TopologyCalls(GeneratedComponents(cfg), cfg)) :
          /\ c.comp_in = out.args[1]
          /\ c.comp_out \notin DOMAIN components
          /\ c.label \notin DOMAIN connections

====
